---- MODULE Spec2Model ----
(***************************************************************************)
(* Model of the x402 local facilitator (src/index.ts): an express app with *)
(* POST /verify, POST /settle and GET /supported.  Every request is one    *)
(* async handler; an action of the model is one run of a handler from the  *)
(* point where it is resumed (request arrival, or the settling of the      *)
(* promise it awaits) up to its next await or its end.  The external calls *)
(* (x402's createSigner / verify / settle, the ERC-20 contract) are opaque *)
(* and their outcomes are chosen nondeterministically.                     *)
(***************************************************************************)
EXTENDS Integers, Sequences, FiniteSets, TLC

VARIABLES
    EVM_PRIVATE_KEY,     \* process.env.EVM_PRIVATE_KEY || ""
    SVM_PRIVATE_KEY,     \* process.env.SVM_PRIVATE_KEY || ""
    EVM_CASHBACK_TOKEN,  \* process.env.EVM_CASHBACK_TOKEN ("" when unset)
    proc,                \* "starting" | "exited" | "listening"
    req                  \* request id -> the state of its handler

vars == <<EVM_PRIVATE_KEY, SVM_PRIVATE_KEY, EVM_CASHBACK_TOKEN, proc, req>>

----------------------------------------------------------------------------
(* Bounds *)

\* number of HTTP requests the service receives (all may be in flight at once)
NumRequests == 2

Requests == 1..NumRequests

----------------------------------------------------------------------------
(* Program constants and input domains *)

\* x402/types allow-lists (imported; one representative member each)
SupportedEVMNetworks == {"base-sepolia"}
SupportedSVMNetworks == {"solana-devnet"}

\* network strings a request may carry; the last is in neither allow-list
Networks == SupportedEVMNetworks \cup SupportedSVMNetworks \cup {"unknown-net"}

\* Number(process.env.CASHBACK_PERCENT || "2")
cashbackPercent == 2
\* const cashbackAmount = 1
cashbackAmount == 1
\* token.decimals().catch(() => 18)
DefaultDecimals == 18

\* values a token's decimals() may return
DecimalsValues == {6}

\* scheme-specific payloads: the EVM "exact" payload carries authorization.from,
\* the SVM one carries a transaction only
Payloads ==
    { [authorization |-> [from |-> "0xPayer"]],
      [transaction |-> "tx"] }

\* request bodies: well-formed ones, and one that fails the schema parse
Bodies ==
    { [paymentRequirements |-> [network |-> n], paymentPayload |-> [payload |-> p]] :
        n \in Networks, p \in Payloads }
    \cup { [malformed |-> TRUE] }

Routes == {"POST /verify", "POST /settle", "GET /supported"}

\* a handler that has not been invoked
Idle ==
    [ route |-> "none", body |-> [malformed |-> TRUE], pc |-> "idle",
      calls |-> <<>>, client |-> <<>>, settlement |-> <<>>, decimals |-> <<>>,
      tx |-> <<>>, kinds |-> <<>>, response |-> <<>> ]

----------------------------------------------------------------------------
(* Pure helpers *)

\* PaymentRequirementsSchema.parse / PaymentPayloadSchema.parse: TRUE when
\* both parse, FALSE when one throws
ParseOk(body) ==
    /\ "paymentRequirements" \in DOMAIN body
    /\ "paymentPayload" \in DOMAIN body

\* Classify with a network outside both lists taken for an EVM one
ClassifyDefaultEvm(network) ==
    IF network \in SupportedSVMNetworks THEN "SVM" ELSE "EVM"

\* the if / else if / else over the two allow-lists
Classify(network) ==
    IF network \in SupportedEVMNetworks THEN "EVM"
    ELSE IF network \in SupportedSVMNetworks THEN "SVM"
    ELSE "Unsupported"

\* number.toString() of a natural, as its sequence of decimal digits
RECURSIVE NumberToString(_)
NumberToString(n) ==
    IF n < 10 THEN <<n>> ELSE Append(NumberToString(n \div 10), n % 10)

\* ethers.parseUnits(value, decimals) of an integer string: the uint256
\* value * 10^decimals, kept as its sequence of decimal digits
ParseUnits(value, decimals) ==
    value \o [i \in 1..decimals |-> 0]

\* if ("authorization" in paymentPayload.payload) payer = ...authorization.from
\* (undefined, modelled as "", otherwise)
Payer(paymentPayload) ==
    IF "authorization" \in DOMAIN paymentPayload.payload
    THEN paymentPayload.payload.authorization.from
    ELSE ""

\* DecimalsOrDefault falling back to 6 decimals
DecimalsOrSix(outcome) ==
    IF outcome.ok THEN outcome.value ELSE 6

\* const decimals = await token.decimals().catch(() => 18)
DecimalsOrDefault(outcome) ==
    IF outcome.ok THEN outcome.value ELSE DefaultDecimals

\* the handler records an external call it makes
Call(q, fn, args) ==
    [q EXCEPT !.calls = Append(@, [fn |-> fn, args |-> args])]

\* res.status(status).json(body); the handler ends
Respond(q, status, body) ==
    [q EXCEPT !.response = Append(@, [status |-> status, body |-> body]),
              !.pc = "done"]

\* catch block of POST /verify
VerifyCatch(q) ==
    Respond(q, 400, [error |-> "Invalid request"])

\* Step 4 of POST /settle: the composite success response
SettleSuccess(q, cashbackTxHash) ==
    Respond(q, 200,
        [ success |-> TRUE,
          settlement |-> q.settlement[1],
          cashback |-> [ amount |-> cashbackAmount,
                         txHash |-> cashbackTxHash,
                         percent |-> cashbackPercent ] ])

\* VerifyClientFor picking a signer for both families, as POST /settle does
VerifyClientAsSettle(network) ==
    IF Classify(network) = "EVM"
    THEN [fn |-> "createSigner", args |-> <<network, EVM_PRIVATE_KEY>>]
    ELSE IF Classify(network) = "SVM"
    THEN [fn |-> "createSigner", args |-> <<network, SVM_PRIVATE_KEY>>]
    ELSE [fn |-> "throw", args |-> <<"Invalid network">>]

\* the constructor POST /verify uses for the verification client
VerifyClientFor(network) ==
    IF Classify(network) = "EVM"
    THEN [fn |-> "createConnectedClient", args |-> <<network>>]
    ELSE IF Classify(network) = "SVM"
    THEN [fn |-> "createSigner", args |-> <<network, SVM_PRIVATE_KEY>>]
    ELSE [fn |-> "throw", args |-> <<"Invalid network">>]

\* the createSigner call POST /settle makes for the settlement signer
SettleSignerFor(network) ==
    IF Classify(network) = "EVM"
    THEN [fn |-> "createSigner", args |-> <<network, EVM_PRIVATE_KEY>>]
    ELSE IF Classify(network) = "SVM"
    THEN [fn |-> "createSigner", args |-> <<network, SVM_PRIVATE_KEY>>]
    ELSE [fn |-> "throw", args |-> <<"Invalid network">>]

\* what a constructor call returns when it succeeds
ClientOf(ctor) ==
    IF ctor.fn = "createConnectedClient"
    THEN [kind |-> "ConnectedClient", network |-> ctor.args[1], key |-> ""]
    ELSE [kind |-> "Signer", network |-> ctor.args[1], key |-> ctor.args[2]]

\* the last call the handler made (the one it awaits)
LastCall(q) == q.calls[Len(q.calls)]

\* the positions at which the handler called fn
CallsOf(q, fn) == {i \in 1..Len(q.calls) : q.calls[i].fn = fn}

Called(q, fn) == CallsOf(q, fn) # {}

\* SettleCatch calling a failed transfer a second time before giving up
SettleCatchRetry(q, error) ==
    IF error = "Error: transfer failed" /\ Cardinality(CallsOf(q, "transfer")) < 2
    THEN [Call(q, "transfer", LastCall(q).args) EXCEPT !.pc = "awaitTransfer"]
    ELSE Respond(q, 400, [error |-> error])

\* catch block of POST /settle
SettleCatch(q, error) ==
    Respond(q, 400, [error |-> error])

----------------------------------------------------------------------------
(* Startup *)

Init ==
    /\ EVM_PRIVATE_KEY \in {"", "evm-key"}
    /\ SVM_PRIVATE_KEY \in {"", "svm-key"}
    /\ EVM_CASHBACK_TOKEN \in {"", "0xToken"}
    /\ proc = "starting"
    /\ req = [r \in Requests |-> Idle]

\* if (!EVM_PRIVATE_KEY && !SVM_PRIVATE_KEY) process.exit(1); otherwise the
\* routes are registered and the app listens
Startup ==
    /\ proc = "starting"
    /\ proc' = IF EVM_PRIVATE_KEY = "" /\ SVM_PRIVATE_KEY = ""
               THEN "exited" ELSE "listening"
    /\ UNCHANGED <<EVM_PRIVATE_KEY, SVM_PRIVATE_KEY, EVM_CASHBACK_TOKEN, req>>

\* a new request reaches its route: requests take ids in arrival order
Arrives(r) ==
    /\ proc = "listening"
    /\ req[r].pc = "idle"
    /\ r > 1 => req[r - 1].pc # "idle"

\* an external call that uses a private key cannot succeed without one
MaySucceed(call) ==
    call.fn = "createSigner" => call.args[2] # ""

Env == <<EVM_PRIVATE_KEY, SVM_PRIVATE_KEY, EVM_CASHBACK_TOKEN, proc>>

----------------------------------------------------------------------------
(* POST /verify *)

\* the handler up to its first await: parse, pick the client constructor,
\* createConnectedClient (synchronous) and the call of verify, or the call
\* of createSigner
VerifyStart(q, ctorOk) ==
    IF ~ParseOk(q.body) THEN VerifyCatch(q)
    ELSE LET network == q.body.paymentRequirements.network
             ctor == VerifyClientFor(network)
         IN  IF ctor.fn = "throw" THEN VerifyCatch(q)
             ELSE IF ctor.fn = "createSigner"
             THEN [Call(q, ctor.fn, ctor.args) EXCEPT !.pc = "awaitVerifySigner"]
             ELSE LET q1 == Call(q, ctor.fn, ctor.args)
                  IN  IF ~ctorOk THEN VerifyCatch(q1)
                      ELSE [Call([q1 EXCEPT !.client = <<ClientOf(ctor)>>],
                                 "verify", <<ClientOf(ctor).kind>>)
                              EXCEPT !.pc = "awaitVerify"]

VerifyPost(r, body, ctorOk) ==
    /\ Arrives(r)
    /\ req' = [req EXCEPT ![r] =
                 VerifyStart([Idle EXCEPT !.route = "POST /verify", !.body = body],
                             ctorOk)]
    /\ UNCHANGED Env

\* await createSigner(network, SVM_PRIVATE_KEY) settles; on success verify is
\* called with the signer
VerifySignerDone(q, ok) ==
    IF ~ok THEN VerifyCatch(q)
    ELSE LET client == ClientOf(LastCall(q))
         IN  [Call([q EXCEPT !.client = <<client>>], "verify", <<client.kind>>)
                EXCEPT !.pc = "awaitVerify"]

VerifySignerReturn(r, ok) ==
    /\ req[r].pc = "awaitVerifySigner"
    /\ ok => MaySucceed(LastCall(req[r]))
    /\ req' = [req EXCEPT ![r] = VerifySignerDone(req[r], ok)]
    /\ UNCHANGED Env

\* await verify(...) settles: res.json(valid), or the catch block
VerifyDone(q, outcome) ==
    IF outcome = "throw" THEN VerifyCatch(q)
    ELSE Respond(q, 200, [isValid |-> outcome = "valid"])

VerifyReturn(r, outcome) ==
    /\ req[r].pc = "awaitVerify"
    /\ req' = [req EXCEPT ![r] = VerifyDone(req[r], outcome)]
    /\ UNCHANGED Env

----------------------------------------------------------------------------
(* POST /settle *)

\* the handler up to its first await: parse, pick the private key by
\* network family, call createSigner
SettleStart(q) ==
    IF ~ParseOk(q.body) THEN SettleCatch(q, "ZodError")
    ELSE LET signer == SettleSignerFor(q.body.paymentRequirements.network)
         IN  IF signer.fn = "throw" THEN SettleCatch(q, "Error: Invalid network")
             ELSE [Call(q, signer.fn, signer.args) EXCEPT !.pc = "awaitSigner"]

SettlePost(r, body) ==
    /\ Arrives(r)
    /\ req' = [req EXCEPT ![r] =
                 SettleStart([Idle EXCEPT !.route = "POST /settle", !.body = body])]
    /\ UNCHANGED Env

\* CashbackBranch without the test of payer
CashbackBranchNoPayerCheck(payer, network) ==
    IF cashbackAmount > 0
    THEN IF network \in SupportedEVMNetworks THEN "evm"
         ELSE IF network \in SupportedSVMNetworks THEN "svm"
         ELSE "none"
    ELSE "none"

\* Step 3 of POST /settle, the branch taken: "evm" calls sendEvmCashback,
\* "svm" only logs, "none" skips the step
CashbackBranch(payer, network) ==
    IF payer # "" /\ cashbackAmount > 0
    THEN IF network \in SupportedEVMNetworks THEN "evm"
         ELSE IF network \in SupportedSVMNetworks THEN "svm"
         ELSE "none"
    ELSE "none"

\* sendEvmCashback up to its first await: provider, wallet and contract are
\* constructed (new ethers.Contract throws on a target that is no string, as
\* the unset EVM_CASHBACK_TOKEN is), then token.decimals() is called
SendEvmCashbackStart(q, to, tokenAddress, amount) ==
    LET q1 == Call(q, "sendEvmCashback", <<to, tokenAddress, amount>>)
    IN  IF tokenAddress = ""
        THEN SettleCatch(q1, "TypeError: invalid value for Contract target")
        ELSE [Call(q1, "decimals", <<>>) EXCEPT !.pc = "awaitDecimals"]

\* SettleSignerDone with settle(...) not awaited before an EVM cashback: the
\* handler goes on to sendEvmCashback while settle is still pending
SettleSignerDoneNoAwait(q, ok) ==
    IF ~ok THEN SettleCatch(q, "Error: createSigner failed")
    ELSE LET signer == ClientOf(LastCall(q))
             q1 == Call([q EXCEPT !.client = <<signer>>], "settle", <<signer.kind>>)
             payer == Payer(q.body.paymentPayload)
         IN  IF CashbackBranch(payer, q.body.paymentRequirements.network) = "evm"
             THEN SendEvmCashbackStart(q1, payer, EVM_CASHBACK_TOKEN, cashbackAmount)
             ELSE [q1 EXCEPT !.pc = "awaitSettle"]

\* await createSigner(...) settles; on success settle is called with the signer
SettleSignerDone(q, ok) ==
    IF ~ok THEN SettleCatch(q, "Error: createSigner failed")
    ELSE LET signer == ClientOf(LastCall(q))
         IN  [Call([q EXCEPT !.client = <<signer>>], "settle", <<signer.kind>>)
                EXCEPT !.pc = "awaitSettle"]

SettleSignerReturn(r, ok) ==
    /\ req[r].pc = "awaitSigner"
    /\ ok => MaySucceed(LastCall(req[r]))
    /\ req' = [req EXCEPT ![r] = SettleSignerDone(req[r], ok)]
    /\ UNCHANGED Env

\* await settle(...) settles: on a throw the catch block; otherwise the
\* settlement is logged, the payer extracted and the cashback step run
SettleDone(q, outcome) ==
    IF outcome = "throw" THEN SettleCatch(q, "Error: settle failed")
    ELSE LET q1 == [q EXCEPT !.settlement =
                       <<[success |-> outcome = "success",
                          transaction |-> "0xSettleTx"]>>]
             payer == Payer(q.body.paymentPayload)
             branch == CashbackBranch(payer, q.body.paymentRequirements.network)
         IN  IF branch = "evm"
             THEN SendEvmCashbackStart(q1, payer, EVM_CASHBACK_TOKEN,
                                       cashbackAmount)
             ELSE SettleSuccess(q1, "null")

SettleReturn(r, outcome) ==
    /\ req[r].pc = "awaitSettle"
    /\ req' = [req EXCEPT ![r] = SettleDone(req[r], outcome)]
    /\ UNCHANGED Env

\* the arguments sendEvmCashback was called with
CashbackArgs(q) ==
    LET i == CHOOSE j \in 1..Len(q.calls) : q.calls[j].fn = "sendEvmCashback"
    IN  q.calls[i].args

\* await token.decimals().catch(() => 18) settles; the amount is scaled and
\* token.transfer(to, decimalAmount) is called
DecimalsDone(q, outcome) ==
    LET decimals == DecimalsOrDefault(outcome)
        decimalAmount == ParseUnits(NumberToString(CashbackArgs(q)[3]), decimals)
    IN  [Call([q EXCEPT !.decimals = <<outcome>>],
              "transfer", <<CashbackArgs(q)[1], decimalAmount>>)
           EXCEPT !.pc = "awaitTransfer"]

DecimalsReturn(r, outcome) ==
    /\ req[r].pc = "awaitDecimals"
    /\ req' = [req EXCEPT ![r] = DecimalsDone(req[r], outcome)]
    /\ UNCHANGED Env

\* await token.transfer(...) settles: on success tx.wait() is called
TransferDone(q, ok) ==
    IF ~ok THEN SettleCatch(q, "Error: transfer failed")
    ELSE [Call([q EXCEPT !.tx = <<[hash |-> "0xCashbackTx"]>>], "wait", <<>>)
            EXCEPT !.pc = "awaitWait"]

TransferReturn(r, ok) ==
    /\ req[r].pc = "awaitTransfer"
    /\ req' = [req EXCEPT ![r] = TransferDone(req[r], ok)]
    /\ UNCHANGED Env

\* await tx.wait() settles: sendEvmCashback returns tx.hash and the handler
\* responds, or the revert propagates to the catch block
WaitDone(q, ok) ==
    IF ~ok THEN SettleCatch(q, "Error: transaction reverted")
    ELSE SettleSuccess(q, q.tx[1].hash)

WaitReturn(r, ok) ==
    /\ req[r].pc = "awaitWait"
    /\ req' = [req EXCEPT ![r] = WaitDone(req[r], ok)]
    /\ UNCHANGED Env

----------------------------------------------------------------------------
(* GET /supported *)

\* EvmKinds without the test of EVM_PRIVATE_KEY
EvmKindsAlways ==
    <<[x402Version |-> 1, scheme |-> "exact", network |-> "base-sepolia"]>>

\* kinds after the "evm" block
EvmKinds ==
    IF EVM_PRIVATE_KEY # ""
    THEN <<[x402Version |-> 1, scheme |-> "exact", network |-> "base-sepolia"]>>
    ELSE <<>>

\* the handler up to its first await (there is one only with an SVM key)
SupportedStart(q) ==
    LET q1 == [q EXCEPT !.kinds = EvmKinds]
    IN  IF SVM_PRIVATE_KEY # ""
        THEN [Call(q1, "createSigner", <<"solana-devnet", SVM_PRIVATE_KEY>>)
                EXCEPT !.pc = "awaitSupportedSigner"]
        ELSE Respond(q1, 200, [kinds |-> q1.kinds])

SupportedGet(r) ==
    /\ Arrives(r)
    /\ req' = [req EXCEPT ![r] =
                 SupportedStart([Idle EXCEPT !.route = "GET /supported"])]
    /\ UNCHANGED Env

\* await createSigner("solana-devnet", ...) settles.  On success the svm kind
\* is pushed with the fee payer and the handler responds.  The handler has no
\* try/catch: a rejection rejects the handler's own promise, which express 4
\* drops (no response is ever sent) and express 5 hands to its default error
\* handler (a 500)
SupportedSignerDone(q, ok, express5) ==
    IF ok
    THEN LET kinds == Append(q.kinds,
                  [x402Version |-> 1, scheme |-> "exact",
                   network |-> "solana-devnet",
                   extra |-> [feePayer |-> "FeePayerAddress"]])
         IN  Respond([q EXCEPT !.kinds = kinds], 200, [kinds |-> kinds])
    ELSE IF express5
    THEN [Respond(q, 500, [error |-> "Internal Server Error"])
            EXCEPT !.pc = "escaped"]
    ELSE [q EXCEPT !.pc = "escaped"]

SupportedSignerReturn(r, ok, express5) ==
    /\ req[r].pc = "awaitSupportedSigner"
    /\ ok => MaySucceed(LastCall(req[r]))
    /\ ok => ~express5
    /\ req' = [req EXCEPT ![r] = SupportedSignerDone(req[r], ok, express5)]
    /\ UNCHANGED Env

----------------------------------------------------------------------------
(* Specification *)

DecimalsOutcomes ==
    { [ok |-> TRUE, value |-> d] : d \in DecimalsValues }
    \cup { [ok |-> FALSE, value |-> 0] }

Next ==
    \/ Startup
    \/ \E r \in Requests, body \in Bodies, ctorOk \in BOOLEAN :
           VerifyPost(r, body, ctorOk)
    \/ \E r \in Requests, ok \in BOOLEAN : VerifySignerReturn(r, ok)
    \/ \E r \in Requests, outcome \in {"valid", "invalid", "throw"} :
           VerifyReturn(r, outcome)
    \/ \E r \in Requests, body \in Bodies : SettlePost(r, body)
    \/ \E r \in Requests, ok \in BOOLEAN : SettleSignerReturn(r, ok)
    \/ \E r \in Requests, outcome \in {"success", "failure", "throw"} :
           SettleReturn(r, outcome)
    \/ \E r \in Requests, outcome \in DecimalsOutcomes : DecimalsReturn(r, outcome)
    \/ \E r \in Requests, ok \in BOOLEAN : TransferReturn(r, ok)
    \/ \E r \in Requests, ok \in BOOLEAN : WaitReturn(r, ok)
    \/ \E r \in Requests : SupportedGet(r)
    \/ \E r \in Requests, ok \in BOOLEAN, express5 \in BOOLEAN :
           SupportedSignerReturn(r, ok, express5)

Spec == Init /\ [][Next]_vars

----------------------------------------------------------------------------
(* Properties *)

OnRoute(route) == {r \in Requests : req[r].route = route}

\* the well-formed requests of a route
Parsed(route) == {r \in OnRoute(route) : ParseOk(req[r].body)}

NetworkOf(r) == req[r].body.paymentRequirements.network

CashbackCalls == {"sendEvmCashback", "decimals", "transfer", "wait"}

\* the handler of r has sent exactly one response, with this status
Answered(r, status) ==
    /\ Len(req[r].response) = 1
    /\ req[r].response[1].status = status

\* r's settle call has returned a settlement (it neither is pending nor threw)
SettleReturned(r) == req[r].settlement # <<>>

\* C1: in POST /settle every cashback call is made after the settle call of
\* the same request has returned; a request whose settle call threw makes no
\* cashback call
C1_CashbackAfterSettle ==
    \A r \in OnRoute("POST /settle") :
        /\ \A fn \in CashbackCalls :
              Called(req[r], fn) =>
                  /\ SettleReturned(r)
                  /\ req[r].pc # "awaitSettle"
                  /\ \A i \in CallsOf(req[r], fn) :
                        \E j \in CallsOf(req[r], "settle") : j < i
        /\ ( /\ Called(req[r], "settle")
             /\ req[r].pc = "done"
             /\ ~SettleReturned(r) )
           => \A fn \in CashbackCalls : ~Called(req[r], fn)

\* one request's transfer is in flight after its settle returned, while
\* another request's settle threw
C1_Witness ==
    \E r, t \in OnRoute("POST /settle") :
        /\ req[r].pc = "awaitTransfer" /\ SettleReturned(r)
        /\ req[t].pc = "done" /\ Called(req[t], "settle") /\ ~SettleReturned(t)

\* C2: a request whose settle call succeeded always answers with the
\* settlement result, also when the cashback transfer fails afterwards
C2_SettlementSurfaced ==
    \A r \in OnRoute("POST /settle") :
        ( /\ SettleReturned(r)
          /\ req[r].settlement[1].success
          /\ req[r].pc = "done" )
        => /\ Len(req[r].response) = 1
           /\ "settlement" \in DOMAIN req[r].response[1].body

\* C3: when settle throws or returns success = false, no cashback call is
\* made and the response is not the success response
C3_FailedSettlementFails ==
    \A r \in OnRoute("POST /settle") :
        ( /\ Called(req[r], "settle")
          /\ req[r].pc # "awaitSettle"
          /\ (SettleReturned(r) => ~req[r].settlement[1].success) )
        => /\ \A fn \in CashbackCalls : ~Called(req[r], fn)
           /\ req[r].pc = "done" => ~Answered(r, 200)

\* C4: a well-formed request whose network is in neither allow-list gets a
\* 400 from POST /verify and POST /settle, and its handler makes no external
\* call at all (no client or signer, no verify, settle or cashback)
C4_UnsupportedNetwork ==
    \A r \in Parsed("POST /verify") \cup Parsed("POST /settle") :
        NetworkOf(r) \notin SupportedEVMNetworks \cup SupportedSVMNetworks
        => /\ req[r].calls = <<>>
           /\ req[r].pc = "done"
           /\ Answered(r, 400)

C4_Witness ==
    \E r \in Parsed("POST /verify"), t \in Parsed("POST /settle") :
        /\ NetworkOf(r) = "unknown-net" /\ Answered(r, 400)
        /\ NetworkOf(t) = "unknown-net" /\ Answered(t, 400)

\* C5: sendEvmCashback is called only with a payer on an EVM network; once
\* settle has returned for a request without authorization.from, or on an SVM
\* network, the handler has made no cashback call and has answered with the
\* success response carrying cashback.txHash = null
C5_CashbackOnlyEvmPayer ==
    \A r \in Parsed("POST /settle") :
        LET payer == Payer(req[r].body.paymentPayload) IN
        /\ (\E fn \in CashbackCalls : Called(req[r], fn))
           => payer # "" /\ NetworkOf(r) \in SupportedEVMNetworks
        /\ ( /\ SettleReturned(r)
             /\ payer = "" \/ NetworkOf(r) \in SupportedSVMNetworks )
           => /\ \A fn \in CashbackCalls : ~Called(req[r], fn)
              /\ Answered(r, 200)
              /\ req[r].response[1].body.success
              /\ req[r].response[1].body.cashback.txHash = "null"

\* an SVM settlement with a payer present and an EVM one without a payer have
\* both answered
C5_Witness ==
    \E r, t \in Parsed("POST /settle") :
        /\ NetworkOf(r) \in SupportedSVMNetworks
        /\ Payer(req[r].body.paymentPayload) # ""
        /\ Answered(r, 200)
        /\ NetworkOf(t) \in SupportedEVMNetworks
        /\ Payer(req[t].body.paymentPayload) = ""
        /\ Answered(t, 200)

\* C6: a handler that has ended, normally or by an error, has sent exactly
\* one response, and that response is the success response or a 400
C6_ErrorsCaughtAs400 ==
    \A r \in Requests :
        req[r].pc \in {"done", "escaped"}
        => /\ Len(req[r].response) = 1
           /\ req[r].response[1].status \in {200, 400}

\* the client constructors POST /verify may call
Constructors == {"createConnectedClient", "createSigner"}

ConstructorCalls(q) == UNION {CallsOf(q, fn) : fn \in Constructors}

\* C7: POST /verify calls at most one client constructor per request, and
\* exactly one for a well-formed request on an EVM or SVM network; a
\* well-formed EVM request never calls createSigner and a well-formed SVM one
\* never createConnectedClient; and when verify is called, exactly one client
\* was constructed and it is the one passed: a connected client for the EVM
\* network, a signer made with the SVM private key for the SVM network
C7_OneVerifyClient ==
    \A r \in OnRoute("POST /verify") :
        /\ Cardinality(ConstructorCalls(req[r])) <= 1
        /\ Called(req[r], "verify") =>
              /\ Cardinality(ConstructorCalls(req[r])) = 1
              /\ Len(req[r].client) = 1
              /\ \A i \in CallsOf(req[r], "verify") :
                    req[r].calls[i].args = <<req[r].client[1].kind>>
              /\ req[r].client[1].network = NetworkOf(r)
              /\ NetworkOf(r) \in SupportedEVMNetworks =>
                    /\ req[r].client[1].kind = "ConnectedClient"
                    /\ Called(req[r], "createConnectedClient")
              /\ NetworkOf(r) \in SupportedSVMNetworks =>
                    /\ req[r].client[1].kind = "Signer"
                    /\ req[r].client[1].key = SVM_PRIVATE_KEY
                    /\ Called(req[r], "createSigner")
        /\ r \in Parsed("POST /verify") =>
              /\ NetworkOf(r) \in SupportedEVMNetworks \cup SupportedSVMNetworks
                    => Cardinality(ConstructorCalls(req[r])) = 1
              /\ NetworkOf(r) \in SupportedEVMNetworks
                    => ~Called(req[r], "createSigner")
              /\ NetworkOf(r) \in SupportedSVMNetworks
                    => ~Called(req[r], "createConnectedClient")

\* verify is awaited for an EVM request and for an SVM request
C7_Witness ==
    \E r, t \in Parsed("POST /verify") :
        /\ NetworkOf(r) \in SupportedEVMNetworks /\ req[r].pc = "awaitVerify"
        /\ NetworkOf(t) \in SupportedSVMNetworks /\ req[t].pc = "awaitVerify"

\* C8: within one request every external call is made at most once (verify,
\* settle and the ERC-20 transfer in particular), whatever failed before
C8_NoRetry ==
    \A r \in Requests :
        \A fn \in {"verify", "settle", "transfer", "sendEvmCashback",
                   "decimals", "wait", "createSigner", "createConnectedClient"} :
            Cardinality(CallsOf(req[r], fn)) <= 1

\* a settle request has failed in its transfer, a verify request in verify
C8_Witness ==
    \E r \in OnRoute("POST /settle"), t \in OnRoute("POST /verify") :
        /\ Called(req[r], "transfer") /\ ~Called(req[r], "wait")
        /\ Answered(r, 400)
        /\ Called(req[t], "verify") /\ Answered(t, 400)

\* the networks of the kinds a GET /supported response lists
KindNetworks(kinds) == {kinds[i].network : i \in 1..Len(kinds)}

ConfiguredKeys ==
    {k \in {"EVM", "SVM"} :
        \/ k = "EVM" /\ EVM_PRIVATE_KEY # ""
        \/ k = "SVM" /\ SVM_PRIVATE_KEY # ""}

\* C9: the kinds of a GET /supported response are one "exact" kind per
\* configured key and nothing else: base-sepolia iff an EVM key is set,
\* solana-devnet iff an SVM key is set; requests are served only with at
\* least one key set, so a served list is never empty
C9_SupportedKinds ==
    /\ proc = "listening" => ConfiguredKeys # {}
    /\ proc # "listening" => \A r \in Requests : req[r] = Idle
    /\ \A r \in OnRoute("GET /supported") :
          Len(req[r].response) = 1 /\ req[r].response[1].status = 200 =>
              LET kinds == req[r].response[1].body.kinds IN
              /\ "base-sepolia" \in KindNetworks(kinds) <=> EVM_PRIVATE_KEY # ""
              /\ "solana-devnet" \in KindNetworks(kinds) <=> SVM_PRIVATE_KEY # ""
              /\ KindNetworks(kinds) \subseteq {"base-sepolia", "solana-devnet"}
              /\ Len(kinds) = Cardinality(ConfiguredKeys)
              /\ \A i \in 1..Len(kinds) :
                    kinds[i].scheme = "exact" /\ kinds[i].x402Version = 1

\* GET /supported has answered with only an SVM key configured
C9_Witness ==
    \E r \in OnRoute("GET /supported") :
        /\ Answered(r, 200)
        /\ EVM_PRIVATE_KEY = "" /\ SVM_PRIVATE_KEY # ""
        /\ Len(req[r].response[1].body.kinds) = 1

\* value is the decimal numeral of cashbackAmount * 10^decimals
IsScaled(value, decimals) ==
    /\ Len(value) = 1 + decimals
    /\ value[1] = cashbackAmount
    /\ \A i \in 2..Len(value) : value[i] = 0

\* C10: once the decimals() lookup has settled, transfer has been called,
\* with the amount scaled by the returned decimals, or by 18 when the lookup
\* failed; and a request whose lookup failed but whose transfer and
\* confirmation succeeded gets the success response with the transfer's hash
C10_DecimalsFallback ==
    \A r \in OnRoute("POST /settle") :
        /\ Called(req[r], "transfer") => Len(req[r].decimals) = 1
        /\ Len(req[r].decimals) = 1 =>
              /\ req[r].pc # "awaitDecimals"
              /\ Cardinality(CallsOf(req[r], "transfer")) = 1
              /\ \A i \in CallsOf(req[r], "transfer") :
                    /\ req[r].calls[i].args[1] = Payer(req[r].body.paymentPayload)
                    /\ IsScaled(req[r].calls[i].args[2],
                                IF req[r].decimals[1].ok
                                THEN req[r].decimals[1].value ELSE 18)
              /\ ( /\ ~req[r].decimals[1].ok
                   /\ req[r].pc = "done"
                   /\ req[r].response[1].status # 200 )
                 => req[r].response[1].body.error \in
                        {"Error: transfer failed", "Error: transaction reverted"}

\* a request whose decimals() lookup failed has answered with the success
\* response and the hash of the transfer
C10_Witness ==
    \E r \in OnRoute("POST /settle") :
        /\ Len(req[r].decimals) = 1 /\ ~req[r].decimals[1].ok
        /\ Answered(r, 200)
        /\ req[r].response[1].body.cashback.txHash = "0xCashbackTx"

====
